---- MODULE Spec2Model ----
(***************************************************************************)
(* Model of script.py: the aria2 watcher and launcher.                     *)
(*                                                                         *)
(* Three kinds of threads act on the state:                                *)
(*   - the main thread (DownloadManager.run and _cleanup),                 *)
(*   - the watchdog observer thread, which calls                           *)
(*     LinkFileHandler.on_modified serially,                               *)
(*   - one daemon thread per started download (Aria2Manager._run_download).*)
(* The environment moves the wall clock, edits the link file, installs or  *)
(* removes the aria2c executable and sends the interrupt.                  *)
(*                                                                         *)
(* Time is counted in ticks, TicksPerSecond ticks to the second, up to     *)
(* MaxTime.  A line of the link file is a sequence of characters over      *)
(* Chars, where " " stands for any whitespace and "a" for any other        *)
(* character than "#".                                                     *)
(***************************************************************************)
EXTENDS Integers, Sequences, FiniteSets, TLC

\* ------------------------------------------------------------------ bounds
TicksPerSecond == 2
MaxTime == 4
MaxTasks == 2
MaxLines == 2
MaxChars == 2

\* ------------------------------------------------------- program constants
DEBOUNCE_SECONDS == 1
IO_ERROR_CODE == 28

Window == DEBOUNCE_SECONDS * TicksPerSecond

Chars == {" ", "#", "a"}
\* the link file on disk: missing, present but not openable, or its lines
Absent == [state |-> "absent", lines |-> <<>>]
Unreadable == [state |-> "unreadable", lines |-> <<>>]
Readable(ls) == [state |-> "readable", lines |-> ls]
\* "# Add your links here (one per line)"
DefaultFile == Readable(<< <<"#", " ", "a">> >>)

LinesUpTo(n) == UNION {[1..k -> Chars] : k \in 0..n}

RECURSIVE TotalLen(_)
TotalLen(ls) == IF ls = <<>> THEN 0 ELSE Len(Head(ls)) + TotalLen(Tail(ls))

\* the files of at most m lines and n characters in all
FilesUpTo(m, n) ==
    {ls \in UNION {[1..k -> LinesUpTo(n)] : k \in 0..m} : TotalLen(ls) <= n}
Files == {Readable(ls) : ls \in FilesUpTo(MaxLines, MaxChars)}
\* a comment line followed by a link
LinkFile == Readable(<< <<"#">>, <<"a">> >>)
UserFiles == {DefaultFile, LinkFile, Unreadable}
StartFiles == {Absent, DefaultFile, LinkFile}

ReturnCodes == {0, IO_ERROR_CODE, 7}
Events == [is_directory : BOOLEAN, src_path : {"links.txt", "other.txt", "invalid"}]
Slots == 1..MaxTasks

VARIABLES
    pc,               \* position of the main thread in DownloadManager.run
    exitCode,         \* value run() returns (-1 while none is decided)
    observer,         \* state of the watchdog observer
    clock,            \* time.time(), in ticks
    file,             \* the link file on disk
    aria2_on_path,    \* whether shutil.which finds aria2c
    _last_modified,   \* LinkFileHandler._last_modified, in ticks
    _is_downloading,  \* Aria2Manager._is_downloading
    _executable_path, \* Aria2Manager._executable_path: "None" or "path"
    tasks,            \* position of each download thread
    gate,             \* what the last on_modified call did with its event
    report,           \* the last message printed or logged: the branch a
                      \* download_links call returned from, or the outcome a
                      \* download thread printed
    report_at_start,  \* the value of report when the last thread was started
    any_accepted      \* whether on_modified has accepted an event so far

vars == <<pc, exitCode, observer, clock, file, aria2_on_path, _last_modified,
          _is_downloading, _executable_path, tasks, gate, report,
          report_at_start, any_accepted>>

\* ------------------------------------------------------------ pure helpers
IsSpace(c) == c = " "

RECURSIVE lstrip(_)
lstrip(s) == IF s # <<>> /\ IsSpace(Head(s)) THEN lstrip(Tail(s)) ELSE s

RECURSIVE rstrip(_)
rstrip(s) ==
    IF s # <<>> /\ IsSpace(s[Len(s)]) THEN rstrip(SubSeq(s, 1, Len(s) - 1)) ELSE s

strip(s) == lstrip(rstrip(s))

startswith(s, c) == Len(s) >= 1 /\ s[1] = c

\* a content test that forgets to strip the line
has_links_unstripped(f) ==
    \E i \in 1..Len(f.lines) :
        f.lines[i] # <<>> /\ ~startswith(f.lines[i], "#")

\* any(line.strip() and not line.strip().startswith('#') for line in f)
has_links(f) ==
    \E i \in 1..Len(f.lines) :
        strip(f.lines[i]) # <<>> /\ ~startswith(strip(f.lines[i]), "#")

\* an open() that is only taken to fail when the file is missing
can_open_if_exists(f) == f.state # "absent"

\* the open() of download_links succeeds
can_open(f) == f.state = "readable"

\* a debounce test that lets an event pass only after more than the window
gate_accepts_strict(now, last) == now - last > Window

\* the debounce test of on_modified: the event passes unless
\* now - self._last_modified < self._debounce_seconds
gate_accepts(now, last) == ~(now - last < Window)

\* a reset placed after the try statement instead of in a finally clause:
\* a launch that raises leaves the flag as it is
flag_after_try(raised) == IF raised THEN _is_downloading ELSE FALSE

\* the value the finally clause of _run_download leaves in _is_downloading
flag_after_finally(raised) == FALSE

\* a classification without the hint for the I/O error code
classify_no_hint(returncode) ==
    IF returncode = 0 THEN "Success" ELSE "OtherNonZero"

\* the print chosen for a return code
classify(returncode) ==
    IF returncode = 0 THEN "Success"
    ELSE IF returncode = IO_ERROR_CODE THEN "PartialIOError"
    ELSE "OtherNonZero"

\* a find_executable that falls back on the bare command name
find_executable_or_default ==
    IF _executable_path # "None" THEN _executable_path ELSE "path"

\* what find_executable returns: the cached path, or what shutil.which finds
find_executable ==
    IF _executable_path # "None" THEN _executable_path
    ELSE IF aria2_on_path THEN "path"
    ELSE "None"

FreeSlots == {t \in Slots : tasks[t] = "none"}
LowestFree == CHOOSE t \in FreeSlots : \A u \in FreeSlots : t <= u

Alive == pc \notin {"returned"}

\* --------------------------------------------------------------- dispatcher
\* Aria2Manager.download_links: the branch taken, the cache of the
\* executable path and the thread it starts.
download_links ==
    IF _is_downloading
    THEN /\ report' = "SkippedAlreadyRunning"
         /\ UNCHANGED <<_executable_path, tasks, report_at_start>>
    ELSE IF ~can_open(file)
    THEN /\ report' = "SkippedUnreadable"
         /\ UNCHANGED <<_executable_path, tasks, report_at_start>>
    ELSE IF ~has_links(file)
    THEN /\ report' = "SkippedNoContent"
         /\ UNCHANGED <<_executable_path, tasks, report_at_start>>
    ELSE IF find_executable = "None"
    THEN /\ report' = "ExecutableNotFound"
         /\ UNCHANGED <<_executable_path, tasks, report_at_start>>
    ELSE /\ FreeSlots # {}
         /\ _executable_path' = find_executable
         /\ tasks' = [tasks EXCEPT ![LowestFree] = "start"]
         /\ report' = "Started"
         /\ report_at_start' = report

\* ------------------------------------------------------------- main thread
Init ==
    /\ pc = "mkdir"
    /\ exitCode = -1
    /\ observer = "none"
    /\ clock = 0
    /\ file \in StartFiles
    /\ aria2_on_path \in BOOLEAN
    /\ _last_modified = 0
    /\ _is_downloading = FALSE
    /\ _executable_path = "None"
    /\ tasks = [t \in Slots |-> "none"]
    /\ gate = "none"
    /\ report = "none"
    /\ report_at_start = "none"
    /\ any_accepted = FALSE

MakeDownloadDir ==
    /\ pc = "mkdir"
    /\ \E ok \in BOOLEAN :
          IF ok THEN pc' = "open_file" /\ UNCHANGED exitCode
                ELSE pc' = "returned" /\ exitCode' = 1
    /\ UNCHANGED <<observer, clock, file, aria2_on_path, _last_modified,
                   _is_downloading, _executable_path, tasks, gate, report,
                   report_at_start, any_accepted>>

\* FileOpener.open_file and the test of its result in run
OpenFile ==
    /\ pc = "open_file"
    /\ \E created \in BOOLEAN, editor_ok \in BOOLEAN :
          IF file = Absent /\ ~created
          THEN pc' = "returned" /\ exitCode' = 1 /\ UNCHANGED file
          ELSE /\ file' = IF file = Absent THEN DefaultFile ELSE file
               /\ IF editor_ok THEN pc' = "initial_dispatch" /\ UNCHANGED exitCode
                               ELSE pc' = "returned" /\ exitCode' = 1
    /\ UNCHANGED <<observer, clock, aria2_on_path, _last_modified,
                   _is_downloading, _executable_path, tasks, gate, report,
                   report_at_start, any_accepted>>

InitialDispatch ==
    /\ pc = "initial_dispatch"
    /\ download_links
    /\ pc' = "monitor_setup"
    /\ UNCHANGED <<exitCode, observer, clock, file, aria2_on_path,
                   _last_modified, _is_downloading, gate, any_accepted>>

\* a set-up without finally clause: a failure returns 1 at once
StartMonitor_no_finally ==
    /\ pc = "monitor_setup"
    /\ \E how \in {"started", "no_observer", "not_started"} :
          /\ observer' = CASE how = "started" -> "running"
                           [] how = "no_observer" -> "none"
                           [] how = "not_started" -> "created"
          /\ IF how = "started" THEN pc' = "watching" /\ UNCHANGED exitCode
                                ELSE pc' = "returned" /\ exitCode' = 1
    /\ UNCHANGED <<clock, file, aria2_on_path, _last_modified, _is_downloading,
                   _executable_path, tasks, gate, report, report_at_start, any_accepted>>

\* the set-up of the observer in the try block of run: it is started, or an
\* exception is raised before or after self.observer is assigned
StartMonitor ==
    /\ pc = "monitor_setup"
    /\ \E how \in {"started", "no_observer", "not_started"} :
          /\ observer' = CASE how = "started" -> "running"
                           [] how = "no_observer" -> "none"
                           [] how = "not_started" -> "created"
          /\ IF how = "started" THEN pc' = "watching" /\ UNCHANGED exitCode
                                ELSE pc' = "cleanup" /\ exitCode' = 1
    /\ UNCHANGED <<clock, file, aria2_on_path, _last_modified, _is_downloading,
                   _executable_path, tasks, gate, report, report_at_start, any_accepted>>

\* KeyboardInterrupt inside the try block of run
Interrupt ==
    /\ pc \in {"monitor_setup", "watching"}
    /\ pc' = "cleanup"
    /\ exitCode' = 0
    /\ UNCHANGED <<observer, clock, file, aria2_on_path, _last_modified,
                   _is_downloading, _executable_path, tasks, gate, report,
                   report_at_start, any_accepted>>

\* KeyboardInterrupt before the try block of run, in the directory step, in
\* open_file or in the initial dispatch: neither run nor main (which catches
\* Exception only) handles it, and the interpreter ends the process with the
\* status of a process killed by the signal
InterruptStartup ==
    /\ pc \in {"mkdir", "open_file", "initial_dispatch"}
    /\ pc' = "returned"
    /\ exitCode' = 130
    /\ UNCHANGED <<observer, clock, file, aria2_on_path, _last_modified,
                   _is_downloading, _executable_path, tasks, gate, report,
                   report_at_start, any_accepted>>

\* KeyboardInterrupt while _cleanup runs in the finally clause of run: the
\* except clause of _cleanup catches Exception only, the rest of _cleanup is
\* skipped, run does not return and the interpreter ends the process
InterruptCleanup ==
    /\ pc \in {"cleanup", "join", "editors"}
    /\ pc' = "returned"
    /\ exitCode' = 130
    /\ UNCHANGED <<observer, clock, file, aria2_on_path, _last_modified,
                   _is_downloading, _executable_path, tasks, gate, report,
                   report_at_start, any_accepted>>

\* a _cleanup that waits for the observer without having told it to stop
CleanupStop_no_signal ==
    /\ pc = "cleanup"
    /\ pc' = IF observer = "none" THEN "editors" ELSE "join"
    /\ UNCHANGED <<exitCode, observer, clock, file, aria2_on_path,
                   _last_modified, _is_downloading, _executable_path, tasks,
                   gate, report, report_at_start, any_accepted>>

\* _cleanup: observer.stop()
CleanupStop ==
    /\ pc = "cleanup"
    /\ pc' = IF observer = "none" THEN "editors" ELSE "join"
    /\ observer' = IF observer = "running" THEN "stopping" ELSE observer
    /\ UNCHANGED <<exitCode, clock, file, aria2_on_path, _last_modified,
                   _is_downloading, _executable_path, tasks, gate, report,
                   report_at_start, any_accepted>>

\* a join without timeout: it returns only when the observer thread has
\* ended (or at once, with an error, when it was never started)
CleanupJoin_no_timeout ==
    /\ pc = "join"
    /\ observer \in {"stopped", "created"}
    /\ pc' = "editors"
    /\ UNCHANGED <<exitCode, observer, clock, file, aria2_on_path,
                   _last_modified, _is_downloading, _executable_path, tasks,
                   gate, report, report_at_start, any_accepted>>

\* _cleanup: observer.join(timeout=3) returns, the thread ended or not
CleanupJoin ==
    /\ pc = "join"
    /\ pc' = "editors"
    /\ UNCHANGED <<exitCode, observer, clock, file, aria2_on_path,
                   _last_modified, _is_downloading, _executable_path, tasks,
                   gate, report, report_at_start, any_accepted>>

\* _cleanup: close_editor_processes, then run returns
CloseEditors ==
    /\ pc = "editors"
    /\ pc' = "returned"
    /\ UNCHANGED <<exitCode, observer, clock, file, aria2_on_path,
                   _last_modified, _is_downloading, _executable_path, tasks,
                   gate, report, report_at_start, any_accepted>>

\* --------------------------------------------------------- observer thread
\* the observer thread leaves its loop after stop()
ObserverStops ==
    /\ Alive
    /\ observer = "stopping"
    /\ observer' = "stopped"
    /\ UNCHANGED <<pc, exitCode, clock, file, aria2_on_path, _last_modified,
                   _is_downloading, _executable_path, tasks, gate, report,
                   report_at_start, any_accepted>>

\* a filter that forgets the test of event.is_directory
Matches_any_kind(e) == e.src_path = "links.txt"

\* the event passes the filter of on_modified
Matches(e) == ~e.is_directory /\ e.src_path = "links.txt"

\* a handler that records the time of an accepted event only when its
\* dispatch has started a download
on_modified_record_if_started(e) ==
    /\ Alive
    /\ observer \in {"running", "stopping"}
    /\ observer' = IF observer = "stopping" THEN "stopped" ELSE observer
    /\ IF ~Matches(e)
       THEN /\ gate' = "discarded"
            /\ UNCHANGED <<_last_modified, any_accepted, _executable_path,
                           tasks, report, report_at_start>>
       ELSE IF ~gate_accepts(clock, _last_modified)
       THEN /\ gate' = "rejected"
            /\ UNCHANGED <<_last_modified, any_accepted, _executable_path,
                           tasks, report, report_at_start>>
       ELSE /\ gate' = "accepted"
            /\ download_links
            /\ _last_modified' = IF report' = "Started" THEN clock
                                                         ELSE _last_modified
            /\ any_accepted' = TRUE
    /\ UNCHANGED <<pc, exitCode, clock, file, aria2_on_path, _is_downloading>>

\* LinkFileHandler.on_modified.  An event in flight when stop() is called is
\* still handled; the observer thread ends after it.
on_modified(e) ==
    /\ Alive
    /\ observer \in {"running", "stopping"}
    /\ observer' = IF observer = "stopping" THEN "stopped" ELSE observer
    /\ IF ~Matches(e)
       THEN /\ gate' = "discarded"
            /\ UNCHANGED <<_last_modified, any_accepted, _executable_path,
                           tasks, report, report_at_start>>
       ELSE IF ~gate_accepts(clock, _last_modified)
       THEN /\ gate' = "rejected"
            /\ UNCHANGED <<_last_modified, any_accepted, _executable_path,
                           tasks, report, report_at_start>>
       ELSE /\ gate' = "accepted"
            /\ _last_modified' = clock
            /\ any_accepted' = TRUE
            /\ download_links
    /\ UNCHANGED <<pc, exitCode, clock, file, aria2_on_path, _is_downloading>>

OnModified == \E e \in Events : on_modified(e)

\* -------------------------------------------------------- download threads
\* _run_download: with self._download_lock: self._is_downloading = True
TaskSetFlag(t) ==
    /\ Alive
    /\ tasks[t] = "start"
    /\ _is_downloading' = TRUE
    /\ tasks' = [tasks EXCEPT ![t] = "launch"]
    /\ UNCHANGED <<pc, exitCode, observer, clock, file, aria2_on_path,
                   _last_modified, _executable_path, gate, report,
                   report_at_start, any_accepted>>

\* subprocess.run has started the child and waits for it
TaskLaunch(t) ==
    /\ Alive
    /\ tasks[t] = "launch"
    /\ tasks' = [tasks EXCEPT ![t] = "child"]
    /\ UNCHANGED <<pc, exitCode, observer, clock, file, aria2_on_path,
                   _last_modified, _is_downloading, _executable_path, gate,
                   report, report_at_start, any_accepted>>

\* subprocess.run raises: the except clause, then the finally clause
TaskLaunchFails(t) ==
    /\ Alive
    /\ tasks[t] = "launch"
    /\ report' = "LaunchFailure"
    /\ _is_downloading' = flag_after_finally(TRUE)
    /\ tasks' = [tasks EXCEPT ![t] = "none"]
    /\ UNCHANGED <<pc, exitCode, observer, clock, file, aria2_on_path,
                   _last_modified, _executable_path, gate, report_at_start,
                   any_accepted>>

\* the child exits with returncode: the print for it, then the finally clause
child_exit(t, returncode) ==
    /\ Alive
    /\ tasks[t] = "child"
    /\ report' = classify(returncode)
    /\ _is_downloading' = flag_after_finally(FALSE)
    /\ tasks' = [tasks EXCEPT ![t] = "none"]
    /\ UNCHANGED <<pc, exitCode, observer, clock, file, aria2_on_path,
                   _last_modified, _executable_path, gate, report_at_start,
                   any_accepted>>

TaskChildExit(t) == \E returncode \in ReturnCodes : child_exit(t, returncode)

\* -------------------------------------------------------------- environment
\* the clock is read by on_modified only: it is left alone once the observer
\* has stopped
Tick ==
    /\ Alive
    /\ observer # "stopped"
    /\ clock < MaxTime
    /\ clock' = clock + 1
    /\ UNCHANGED <<pc, exitCode, observer, file, aria2_on_path, _last_modified,
                   _is_downloading, _executable_path, tasks, gate, report,
                   report_at_start, any_accepted>>

\* the user saves the link file, or makes it unreadable
UserEdit ==
    /\ pc \in {"initial_dispatch", "monitor_setup", "watching"}
    /\ \E f \in UserFiles : f # file /\ file' = f
    /\ UNCHANGED <<pc, exitCode, observer, clock, aria2_on_path, _last_modified,
                   _is_downloading, _executable_path, tasks, gate, report,
                   report_at_start, any_accepted>>

\* aria2c is installed into, or removed from, the search path; the search
\* path is no longer read once a path is cached
PathChange ==
    /\ pc \in {"initial_dispatch", "monitor_setup", "watching"}
    /\ _executable_path = "None"
    /\ aria2_on_path' = ~aria2_on_path
    /\ UNCHANGED <<pc, exitCode, observer, clock, file, _last_modified,
                   _is_downloading, _executable_path, tasks, gate, report,
                   report_at_start, any_accepted>>

Next ==
    \/ MakeDownloadDir
    \/ OpenFile
    \/ InitialDispatch
    \/ StartMonitor
    \/ Interrupt
    \/ InterruptStartup
    \/ InterruptCleanup
    \/ CleanupStop
    \/ CleanupJoin
    \/ CloseEditors
    \/ ObserverStops
    \/ OnModified
    \/ \E t \in Slots : TaskSetFlag(t)
    \/ \E t \in Slots : TaskLaunch(t)
    \/ \E t \in Slots : TaskLaunchFails(t)
    \/ \E t \in Slots : TaskChildExit(t)
    \/ Tick
    \/ UserEdit
    \/ PathChange

Spec == Init /\ [][Next]_vars

\* ------------------------------------------- the content of the link file
\* The same program, started one window after the epoch.  While the program
\* watches, and before the first change event is handled, the user saves the
\* file once, with any content of up to MaxLines lines and MaxChars characters, or makes it
\* unreadable.  The clock stands still and no interrupt comes.
InitContent ==
    /\ pc = "mkdir"
    /\ exitCode = -1
    /\ observer = "none"
    /\ clock = Window
    /\ file \in {Absent, LinkFile}
    /\ aria2_on_path \in BOOLEAN
    /\ _last_modified = 0
    /\ _is_downloading = FALSE
    /\ _executable_path = "None"
    /\ tasks = [t \in Slots |-> "none"]
    /\ gate = "none"
    /\ report = "none"
    /\ report_at_start = "none"
    /\ any_accepted = FALSE

UserRewrite ==
    /\ pc = "watching"
    /\ gate = "none"
    /\ file \in {DefaultFile, LinkFile}
    /\ \E f \in Files \cup {Unreadable} : f # file /\ file' = f
    /\ UNCHANGED <<pc, exitCode, observer, clock, aria2_on_path, _last_modified,
                   _is_downloading, _executable_path, tasks, gate, report,
                   report_at_start, any_accepted>>

NextContent ==
    \/ MakeDownloadDir
    \/ OpenFile
    \/ InitialDispatch
    \/ StartMonitor
    \/ OnModified
    \/ \E t \in Slots : TaskSetFlag(t)
    \/ \E t \in Slots : TaskLaunch(t)
    \/ \E t \in Slots : TaskLaunchFails(t)
    \/ \E t \in Slots : TaskChildExit(t)
    \/ UserRewrite

SpecContent == InitContent /\ [][NextContent]_vars

\* the threads run: a started thread takes its lock, subprocess.run returns
Fairness ==
    \A t \in Slots :
        /\ WF_vars(TaskSetFlag(t))
        /\ WF_vars(TaskLaunch(t) \/ TaskLaunchFails(t))
        /\ WF_vars(TaskChildExit(t))

FairSpec == Init /\ [][Next]_vars /\ Fairness

\* the main thread runs: observer.stop() returns, join returns after its
\* timeout at the latest, and so does each wait of close_editor_processes;
\* nothing is assumed of the observer thread and of the download threads
StopFairness ==
    /\ WF_vars(CleanupStop)
    /\ WF_vars(CleanupJoin)
    /\ WF_vars(CloseEditors)

FairStopSpec == Init /\ [][Next]_vars /\ StopFairness

\* ------------------------------------------------------------------- steps
\* a matching change event is handled
MatchingEvent == \E e \in Events : Matches(e) /\ on_modified(e)

\* download_links is called: the start-up dispatch, or an accepted event
Dispatched == InitialDispatch \/ (MatchingEvent /\ gate' = "accepted")

\* a download thread is started
TaskStarts == \E t \in Slots : tasks[t] = "none" /\ tasks'[t] = "start"

\* a download thread ends
TaskEnds == \E t \in Slots : tasks[t] \in {"launch", "child"} /\ tasks'[t] = "none"

Children == {t \in Slots : tasks[t] = "child"}
Unfinished == {t \in Slots : tasks[t] # "none"}

\* ------------------------------------------------------------------ claims
\* C1: in every reachable state at most one child download process is
\* active.
C1_AtMostOneChild == Cardinality(Children) <= 1

\* C2: a dispatch called while the run state is Idle, on a file with content
\* and with a resolvable executable, before the thread of an earlier started
\* dispatch has completed, returns SkippedAlreadyRunning and starts no
\* second thread.
C2_NoDoubleSpawn ==
    [][(/\ Dispatched
        /\ ~_is_downloading
        /\ can_open(file) /\ has_links(file)
        /\ (_executable_path # "None" \/ aria2_on_path)
        /\ Unfinished # {})
       => (report' = "SkippedAlreadyRunning" /\ tasks' = tasks)]_vars

\* C3: a step in which a download thread ends, with a return code or with a
\* launch exception, leaves the run state Idle and does not move the main
\* thread or the observer; the run state never stays Running for ever while
\* the process lives.
C3_ResetToIdle ==
    /\ [][TaskEnds => (/\ _is_downloading' = FALSE
                       /\ report' \in {"Success", "PartialIOError",
                                       "OtherNonZero", "LaunchFailure"}
                       /\ UNCHANGED <<pc, exitCode, observer>>)]_vars
    /\ (_is_downloading ~> (~_is_downloading \/ ~Alive))

\* C3 witness: a thread was started, while the watcher runs, right after a
\* launch failure was reported, and the run state is Idle.
C3_Witness ==
    /\ report = "Started"
    /\ report_at_start = "LaunchFailure"
    /\ gate = "accepted"
    /\ observer = "running"
    /\ ~_is_downloading

\* C4: a matching event at time now is accepted, and _last_modified set to
\* now, iff now - _last_modified >= window; a rejected event leaves
\* _last_modified unchanged and calls no dispatch.
C4_Gate ==
    [][MatchingEvent =>
         IF clock - _last_modified >= DEBOUNCE_SECONDS * TicksPerSecond
         THEN /\ gate' = "accepted"
              /\ _last_modified' = clock
              /\ report' \in {"Started", "SkippedAlreadyRunning",
                              "SkippedNoContent", "SkippedUnreadable",
                              "ExecutableNotFound"}
         ELSE /\ gate' = "rejected"
              /\ UNCHANGED <<_last_modified, report, report_at_start, tasks,
                             _executable_path, _is_downloading>>]_vars

\* C4 witness: an event was rejected after an earlier one was accepted, less
\* than the window ago.
C4_Witness ==
    /\ gate = "rejected"
    /\ any_accepted
    /\ clock > _last_modified
    /\ clock - _last_modified < Window

\* C5: the gate accepts the first matching event, accepts a later one iff it
\* comes at least the window after the last accepted one, and never accepts
\* two events closer together than the window.
C5_Sequence ==
    [][MatchingEvent =>
         /\ (gate' = "accepted") <=>
               (~any_accepted \/ clock - _last_modified >= Window)
         /\ (gate' = "accepted" /\ any_accepted) =>
               clock - _last_modified >= Window]_vars

\* a line that is blank, or whose first character that is not whitespace
\* is the comment marker
NoContentLine(l) ==
    \/ \A i \in 1..Len(l) : l[i] = " "
    \/ \E i \in 1..Len(l) : l[i] = "#" /\ \A j \in 1..(i - 1) : l[j] = " "

NoContent(f) == \A i \in 1..Len(f.lines) : NoContentLine(f.lines[i])

Resolvable == _executable_path # "None" \/ aria2_on_path

\* C6 as claimed: a dispatch on a readable file of blank and comment lines
\* yields SkippedNoContent and starts nothing, whatever the run state; a
\* dispatch on a file with a content line yields Started or
\* SkippedAlreadyRunning.
C6_Original ==
    [][(Dispatched /\ can_open(file)) =>
         IF NoContent(file)
         THEN report' = "SkippedNoContent" /\ tasks' = tasks
         ELSE report' \in {"Started", "SkippedAlreadyRunning"}]_vars

\* C6 amended: a dispatch on a readable file of blank and comment lines
\* starts nothing and yields SkippedNoContent when the run state is Idle,
\* SkippedAlreadyRunning when it is Running; a dispatch on a file with a
\* content line yields Started or SkippedAlreadyRunning when the executable
\* can be resolved.
C6_ContentCheck ==
    [][(Dispatched /\ can_open(file)) =>
         IF NoContent(file)
         THEN /\ tasks' = tasks
              /\ report' = IF _is_downloading THEN "SkippedAlreadyRunning"
                                              ELSE "SkippedNoContent"
         ELSE Resolvable =>
                report' \in {"Started", "SkippedAlreadyRunning"}]_vars

\* C6 witness: an accepted event was dispatched on a file with an indented
\* comment line and the dispatch reported that the file has no content.
C6_Witness ==
    /\ gate = "accepted"
    /\ report = "SkippedNoContent"
    /\ \E i \in 1..Len(file.lines) : file.lines[i] = <<" ", "#">>

\* the dispatch step lets the program go on: the main thread stays where it
\* is, or goes on to set up the monitor after the start-up dispatch, and a
\* running observer keeps running
GoesOn ==
    /\ pc' = pc \/ (pc = "initial_dispatch" /\ pc' = "monitor_setup")
    /\ exitCode' = exitCode
    /\ observer = "running" => observer' = "running"

\* C7 as claimed: a dispatch on a file that cannot be opened returns
\* SkippedUnreadable, starts nothing, leaves the run state unchanged and lets
\* the program go on.
C7_Original ==
    [][(Dispatched /\ file.state # "readable") =>
         /\ report' = "SkippedUnreadable"
         /\ UNCHANGED <<tasks, _is_downloading>>
         /\ GoesOn]_vars

\* C7 amended: a dispatch on a file that cannot be opened returns
\* SkippedUnreadable when the run state is Idle and SkippedAlreadyRunning,
\* without opening the file, when it is Running; in both cases it starts
\* nothing, leaves the run state unchanged and lets the program go on.
C7_Unreadable ==
    [][(Dispatched /\ file.state # "readable") =>
         /\ report' = IF _is_downloading THEN "SkippedAlreadyRunning"
                                         ELSE "SkippedUnreadable"
         /\ UNCHANGED <<tasks, _is_downloading>>
         /\ GoesOn]_vars

\* C7 witness: an accepted event was dispatched on the unreadable file, the
\* read failure was reported, and a later event has been handled since.
C7_Witness ==
    /\ report = "SkippedUnreadable"
    /\ any_accepted
    /\ gate = "rejected"
    /\ observer = "running"
    /\ file = Unreadable

\* C8: a dispatch that gets as far as resolving the executable, with no path
\* cached and aria2c not on the search path, reports the failure, starts no
\* thread and leaves the run state Idle; no thread exists at that moment that
\* could still set it.
C8_NoExecutable ==
    [][(/\ Dispatched
        /\ ~_is_downloading /\ file.state = "readable" /\ ~NoContent(file)
        /\ _executable_path = "None" /\ ~aria2_on_path)
       => (/\ report' = "ExecutableNotFound"
           /\ UNCHANGED <<tasks, _executable_path>>
           /\ \A t \in Slots : tasks'[t] = "none"
           /\ _is_downloading' = FALSE)]_vars

\* C8 witness: a dispatch returned Started right after one that had reported
\* that the executable was not found.
C8_Witness ==
    /\ report = "Started"
    /\ report_at_start = "ExecutableNotFound"
    /\ gate = "accepted"

\* C9: a dispatch that returns Started has only started the thread: no
\* thread has moved and the run state is as before; while the child of a
\* download is active and the observer runs, a matching event can be
\* handled, and one that is handled passes the gate as usual and is reported
\* as already running.
C9_NonBlocking ==
    /\ [][(Dispatched /\ report' = "Started") =>
            /\ TaskStarts
            /\ \A t \in Slots : tasks'[t] = tasks[t] \/ tasks'[t] = "start"
            /\ UNCHANGED _is_downloading]_vars
    /\ []((Alive /\ observer = "running" /\ Children # {})
            => ENABLED MatchingEvent)
    /\ [][(MatchingEvent /\ Children # {}) =>
            IF clock - _last_modified >= Window
            THEN gate' = "accepted" /\ report' = "SkippedAlreadyRunning"
            ELSE gate' = "rejected"]_vars

\* a thread appears at its start position
NewThread == \E t \in Slots : tasks'[t] = "start" /\ tasks[t] # "start"

\* C10: an event accepted while the child of a download is active is skipped
\* as SkippedAlreadyRunning and starts nothing; a thread is started only by
\* a dispatch step, never by a thread that ends or by any other step, so a
\* skipped trigger is not run later.
C10_NoQueue ==
    /\ [][(MatchingEvent /\ gate' = "accepted" /\ Children # {}) =>
            /\ report' = "SkippedAlreadyRunning"
            /\ UNCHANGED <<tasks, _executable_path, _is_downloading>>]_vars
    /\ [][NewThread => Dispatched]_vars
    /\ [][TaskEnds => ~NewThread]_vars

\* a directory-level event, or one whose path has no name or another name
\* than links.txt
Foreign(e) == e.is_directory \/ e.src_path # "links.txt"

\* an event of that kind is handled
ForeignEvent == \E e \in Events : Foreign(e) /\ on_modified(e)

\* the slots in which a thread is started by the step
Started == {t \in Slots : tasks[t] = "none" /\ tasks'[t] = "start"}

\* one call of download_links: one of its five results, and a thread in one
\* more slot iff the result is Started
OneDispatch ==
    /\ report' \in {"Started", "SkippedAlreadyRunning", "SkippedNoContent",
                    "SkippedUnreadable", "ExecutableNotFound"}
    /\ Cardinality(Started) = IF report' = "Started" THEN 1 ELSE 0
    /\ \A t \in Slots \ Started : tasks'[t] = tasks[t]

\* C11: a directory-level event, or an event for another file name, is
\* discarded: _last_modified, the run state, the threads and the last report
\* are unchanged; an event for links.txt is passed to the debounce gate, which
\* accepts or rejects it, and an accepted one calls download_links exactly
\* once.
C11_Filter ==
    /\ [][ForeignEvent =>
            /\ gate' = "discarded"
            /\ UNCHANGED <<_last_modified, _is_downloading, tasks,
                           _executable_path, report, report_at_start,
                           any_accepted>>]_vars
    /\ [][(\E e \in Events : ~Foreign(e) /\ on_modified(e)) =>
            /\ gate' \in {"accepted", "rejected"}
            /\ gate' = "accepted" => OneDispatch
            /\ gate' = "rejected" => UNCHANGED <<tasks, report>>]_vars

\* C11 witness: while the observer runs and the gate is open, an event for
\* another file or a directory was discarded after an earlier event had been
\* accepted.
C11_Witness ==
    /\ gate = "discarded"
    /\ observer = "running"
    /\ any_accepted
    /\ clock - _last_modified >= Window

\* the steps of run, in the order of the code
StartOrder ==
    {<<"mkdir", "open_file">>, <<"open_file", "initial_dispatch">>,
     <<"initial_dispatch", "monitor_setup">>, <<"monitor_setup", "watching">>}

\* run decides to return 1
Fails == exitCode = -1 /\ exitCode' = 1

\* C12: start-up goes through its steps in the order directory, file,
\* initial dispatch, watcher; the file step leaves a missing file with the
\* default comment line; a step that fails ends start-up with exit code 1 and
\* nothing else is done in it; the only steps that fail are a directory that
\* cannot be created, a file that cannot be created and a watcher that
\* cannot be started; the initial dispatch, whatever it returns, goes on to
\* the watcher set-up.
C12_Startup ==
    /\ [][(pc' # pc /\ pc' \notin {"returned", "cleanup"}
             /\ pc \in {"mkdir", "open_file", "initial_dispatch", "monitor_setup"})
            => <<pc, pc'>> \in StartOrder]_vars
    /\ [][(pc = "open_file" /\ pc' = "initial_dispatch") =>
            (file' = IF file = Absent THEN DefaultFile ELSE file)]_vars
    /\ [][Fails =>
            /\ pc' \in {"returned", "cleanup"}
            /\ UNCHANGED <<tasks, _is_downloading, report, gate>>
            /\ observer' # "running"]_vars
    /\ [][Fails =>
            \/ pc = "mkdir"
            \/ pc = "open_file" /\ file = Absent /\ file' = Absent
            \/ pc = "monitor_setup"]_vars
    /\ [][InitialDispatch => (pc' = "monitor_setup" /\ exitCode' = -1)]_vars

\* the stop signal arrives
StopSignal == Interrupt \/ InterruptStartup \/ InterruptCleanup

\* C13: a stop signal starts the stop sequence with exit code 0; the
\* sequence signals a running observer to stop, then waits for the observer
\* (when there is one), then terminates the editor processes, then run
\* returns, and the exit code is still 0.
C13_GracefulStop ==
    /\ [][StopSignal => (pc' = "cleanup" /\ exitCode' = 0)]_vars
    /\ [][(pc = "cleanup" /\ pc' # pc) =>
            /\ pc' = IF observer = "none" THEN "editors" ELSE "join"
            /\ observer = "running" => observer' = "stopping"]_vars
    /\ [][(pc = "join" /\ pc' # pc) => pc' = "editors"]_vars
    /\ [][(pc = "editors" /\ pc' # pc) => pc' = "returned"]_vars
    /\ [][exitCode = 0 => exitCode' = 0]_vars

\* C14: a thread that ends reports one of four outcomes: Success for return
\* code 0, PartialIOError for 28, OtherNonZero for any other return code,
\* and LaunchFailure, which is none of the three, when subprocess.run raises;
\* in each case the step leaves the run state Idle and the thread gone.
C14_Outcome ==
    /\ [][\A rc \in ReturnCodes :
            (\E t \in Slots : child_exit(t, rc)) =>
               /\ report' = CASE rc = 0 -> "Success"
                               [] rc = 28 -> "PartialIOError"
                               [] OTHER -> "OtherNonZero"
               /\ _is_downloading' = FALSE]_vars
    /\ [][(\E t \in Slots : TaskLaunchFails(t)) =>
            (report' = "LaunchFailure" /\ _is_downloading' = FALSE)]_vars
    /\ [][TaskEnds =>
            /\ (\E t \in Slots : TaskLaunchFails(t) \/ TaskChildExit(t))
            /\ Cardinality({t \in Slots : tasks'[t] # tasks[t]}) = 1]_vars

\* C14 witness: a launch failure was reported, then a thread was started,
\* and its child has exited with the I/O error code: the hint is the last
\* report and the run state is Idle.
C14_Witness ==
    /\ report = "PartialIOError"
    /\ report_at_start = "LaunchFailure"
    /\ ~_is_downloading

\* a thread executes its assignment self._is_downloading = True
SetsRunning == \E t \in Slots : TaskSetFlag(t)

\* C15: the run state becomes Running only by the assignment a download
\* thread makes while it holds the lock, and that assignment is made only
\* when the run state is Idle: no step sets it to Running when it is Running
\* already.
C15_OnlyFromIdle ==
    /\ [][(~_is_downloading /\ _is_downloading') => SetsRunning]_vars
    /\ [][SetsRunning => ~_is_downloading]_vars

\* the state of the orchestrator: Watching while the observer runs, Stopping
\* from observer.stop() until _cleanup has finished with the observer,
\* Stopped before the observer is started and after _cleanup has finished
\* with it
Orchestrator ==
    IF pc \in {"editors", "returned"} THEN "Stopped"
    ELSE IF observer = "running" THEN "Watching"
    ELSE IF observer \in {"stopping", "stopped"} THEN "Stopping"
    ELSE "Stopped"

CleanupStep == CleanupStop \/ CleanupJoin \/ CloseEditors

\* C17: once the stop signal has been received, run returns, whatever the
\* download threads and the observer thread do; in every state of the stop
\* sequence its next step can be taken, whether or not a child is running
\* and whether or not the observer thread has ended, and no step of the
\* sequence touches a download thread.
C17_StopCompletes ==
    /\ ((exitCode = 0) ~> (pc = "returned"))
    /\ [](pc \in {"cleanup", "join", "editors"} => ENABLED CleanupStep)
    /\ [][CleanupStep => UNCHANGED <<tasks, _is_downloading>>]_vars

\* C17 witness: run has returned 0 while a child download process was still
\* running and the observer thread had not ended.
C17_Witness ==
    /\ pc = "returned"
    /\ exitCode = 0
    /\ Children # {}
    /\ observer = "stopping"

\* C18: in every state in which the child of a download thread is active
\* the run state is Running, and no step resets the run state to Idle while
\* the child of another thread is still active.
C18_FlagCoversChild ==
    /\ [](Children # {} => _is_downloading)
    /\ [][(_is_downloading /\ ~_is_downloading') => Children' = {}]_vars

\* the results of a dispatch that starts nothing
Skipped ==
    {"SkippedAlreadyRunning", "SkippedNoContent", "SkippedUnreadable",
     "ExecutableNotFound"}

\* C19: an accepted event sets _last_modified to the time of the event
\* whatever its dispatch returns; when the last event was accepted and its
\* dispatch skipped, a matching event less than the window later is rejected
\* and nothing is dispatched; the start-up dispatch leaves _last_modified and
\* the gate alone.
C19_RecordBeforeDispatch ==
    /\ [][(MatchingEvent /\ gate' = "accepted") =>
            (_last_modified' = clock /\ report' \in Skipped \cup {"Started"})]_vars
    /\ [][(/\ MatchingEvent
            /\ any_accepted /\ report \in Skipped
            /\ clock - _last_modified < Window) =>
            /\ gate' = "rejected"
            /\ UNCHANGED <<_last_modified, tasks, report, report_at_start,
                           _executable_path, _is_downloading>>]_vars
    /\ [][InitialDispatch => UNCHANGED <<_last_modified, gate, any_accepted>>]_vars

\* C19 witness: an event was accepted and its dispatch skipped, and a later
\* matching event, less than the window after it, was rejected.
C19_Witness ==
    /\ gate = "rejected"
    /\ any_accepted
    /\ report \in Skipped
    /\ clock > _last_modified
    /\ clock - _last_modified < Window

\* run returns a value
Returns == pc # "returned" /\ pc' = "returned" /\ exitCode' \in {0, 1}

\* C20: from the watcher set-up on, run leaves the try block only into
\* _cleanup, with exit code 0 for an interrupt and 1 for a set-up failure;
\* _cleanup stops and joins the observer if one was created, then terminates
\* the editors, and is never entered again; run returns a value only at the
\* end of _cleanup, or with 1 from the directory step or the file step,
\* which do not enter _cleanup.
C20_CleanupOnce ==
    /\ [][(pc \in {"monitor_setup", "watching"} /\ pc' # pc) =>
            /\ pc' \in {"watching", "cleanup"}
            /\ pc' = "cleanup" => exitCode' = IF Interrupt THEN 0 ELSE 1]_vars
    /\ [][(pc = "cleanup" /\ pc' # pc /\ exitCode' # 130) =>
            /\ pc' = IF observer = "none" THEN "editors" ELSE "join"
            /\ observer' # "running"
            /\ UNCHANGED exitCode]_vars
    /\ [][(pc = "join" /\ pc' # pc /\ exitCode' # 130) =>
            (pc' = "editors" /\ UNCHANGED exitCode)]_vars
    /\ [][(pc \in {"join", "editors", "returned"}) => pc' # "cleanup"]_vars
    /\ [][Returns =>
            \/ pc = "editors" /\ UNCHANGED exitCode
            \/ pc \in {"mkdir", "open_file"} /\ exitCode' = 1]_vars
    /\ [][(pc \in {"mkdir", "open_file"} /\ Fails) => pc' = "returned"]_vars

\* C20 witness: the set-up of the watcher failed after the observer was
\* created, and run has returned 1.
C20_Witness ==
    /\ pc = "returned"
    /\ exitCode = 1
    /\ observer = "created"

TypeOK ==
    /\ pc \in {"mkdir", "open_file", "initial_dispatch", "monitor_setup",
               "watching", "cleanup", "join", "editors", "returned"}
    /\ exitCode \in {-1, 0, 1, 130}
    /\ observer \in {"none", "created", "running", "stopping", "stopped"}
    /\ clock \in 0..MaxTime
    /\ _last_modified \in 0..MaxTime
    /\ _is_downloading \in BOOLEAN
    /\ _executable_path \in {"None", "path"}
    /\ tasks \in [Slots -> {"none", "start", "launch", "child"}]

====
